---- MODULE Spec2Model ----
(***************************************************************************)
(* A model of sbatch.py: the unique-name resolver (createTempFileName),    *)
(* the argument serializer (build_args), the two script builders           *)
(* (build_sbatch, build_srun) and the launcher (launch_exp).               *)
(*                                                                         *)
(* A Python str is a sequence of one-character strings; a Python dict is   *)
(* the sequence of its (name, value) entries in insertion order; the       *)
(* filesystem is a function from the paths of the regular files to their   *)
(* contents.                                                               *)
(***************************************************************************)
EXTENDS Integers, Sequences, FiniteSets, TLC

VARIABLES
    runOpt,        \* the run options dict: interactive, env_name, command, script, temp_file
    sbatchOpt,     \* the list of scheduler directives
    argsDict,      \* the arguments dict, as its entries in insertion order
    fs,            \* the filesystem: path of each regular file |-> its content
    pc,            \* where the program is
    ret,           \* the outcome of the last call of a pure function: [exc, val]
    command_srun,  \* build_srun's local command string
    f_sbatch,      \* the script's file object: [path, buf, pos, state]
    procs,         \* the child processes spawned by the current launch_exp call
    child,         \* what the child wrote and how it exited: [out, err, returncode]
    output,        \* communicate()'s first result: [none, val]
    error,         \* communicate()'s second result: [none, val]
    stdout,        \* what reached the caller's standard output during the current call
    stderr,        \* what reached the caller's standard error during the current call
    exc,           \* the exception that ended the current call: [type, at]
    calls,         \* the number of launch_exp calls that have ended
    fs0,           \* the filesystem as it was when the current call began
    scripts        \* the scripts written so far: [call, path, content] of each close()

vars == <<runOpt, sbatchOpt, argsDict, fs, pc, ret, command_srun, f_sbatch, procs,
          child, output, error, stdout, stderr, exc, calls, fs0, scripts>>

----------------------------------------------------------------------------
(* Bounds of the model *)

\* the longest path the resolver is given
MaxLen == 3
\* the largest numeric suffix among the files that exist beforehand
MaxNum == 2
\* the largest number of entries of an arguments dict
MaxArgs == 2
\* the largest number of scheduler directives
MaxOpts == 1
\* the largest number of launch_exp calls on one runOpt
MaxCalls == 2

----------------------------------------------------------------------------
(* Python built-ins used by the program *)

\* Python's None / a value, for communicate()'s results
None == [none |-> TRUE, val |-> << >>]
Some(v) == [none |-> FALSE, val |-> v]

\* the index a slice bound i denotes in a sequence of length l
PyIndex(i, l) == IF i < 0 THEN (IF i + l < 0 THEN 0 ELSE i + l) ELSE (IF i > l THEN l ELSE i)

\* s[i:]
SliceFrom(s, i) == SubSeq(s, PyIndex(i, Len(s)) + 1, Len(s))

\* s[:i]
SliceTo(s, i) == SubSeq(s, 1, PyIndex(i, Len(s)))

Digits == <<"0", "1", "2", "3", "4", "5", "6", "7", "8", "9">>

RECURSIVE reprNat(_)
reprNat(n) == IF n < 10 THEN <<Digits[n + 1]>> ELSE reprNat(n \div 10) \o <<Digits[(n % 10) + 1]>>

\* repr of an int
repr(n) == IF n < 0 THEN <<"-">> \o reprNat(0 - n) ELSE reprNat(n)

\* sub in s, for two strs
Contains(sub, s) == \E i \in 0..(Len(s) - Len(sub)) : SubSeq(s, i + 1, i + Len(sub)) = sub

IsSpace(c) == c \in {" ", "\n", "\t", "\r"}

RECURSIVE lstrip(_)
lstrip(s) == IF s # << >> /\ IsSpace(Head(s)) THEN lstrip(Tail(s)) ELSE s

RECURSIVE rstrip(_)
rstrip(s) == IF s # << >> /\ IsSpace(s[Len(s)]) THEN rstrip(SubSeq(s, 1, Len(s) - 1)) ELSE s

\* s.strip()
strip(s) == rstrip(lstrip(s))

\* s.split(): the maximal runs of non-whitespace characters, in order
RECURSIVE splitFrom(_, _, _)
splitFrom(s, i, word) ==
    IF i > Len(s) THEN (IF word = << >> THEN << >> ELSE <<word>>)
    ELSE IF IsSpace(s[i]) THEN (IF word = << >> THEN << >> ELSE <<word>>) \o splitFrom(s, i + 1, << >>)
    ELSE splitFrom(s, i + 1, Append(word, s[i]))

split(s) == splitFrom(s, 1, << >>)

\* Path(path).is_file()
is_file(path, files) == path \in DOMAIN files

\* the outcome of a call: a value, or the exception it raised
Returned(v) == [exc |-> "none", val |-> v]
Raised(e) == [exc |-> e, val |-> << >>]

----------------------------------------------------------------------------
(* Utility: getLastDot, createTempFileName *)

\* a resolver that splits at the first dot instead of the last
RECURSIVE getFirstDotFrom(_, _)
getFirstDotFrom(U_str, i) ==
    IF i >= Len(U_str) THEN -1
    ELSE IF U_str[i + 1] = "." THEN i
    ELSE getFirstDotFrom(U_str, i + 1)

getFirstDot(U_str) == getFirstDotFrom(U_str, 0)

RECURSIVE getLastDotFrom(_, _)
getLastDotFrom(U_str, i) ==
    IF i < 0 THEN -1
    ELSE IF U_str[i + 1] = "." THEN i
    ELSE getLastDotFrom(U_str, i - 1)

getLastDot(U_str) == getLastDotFrom(U_str, Len(U_str) - 1)

\* a resolver that probes with `if` instead of `while`: a taken name gets the
\* suffix _1 whether or not that one is taken too
probeOnce(ret_file_name, temp_type, temp_number, files) ==
    IF is_file(ret_file_name \o temp_type, files)
    THEN ret_file_name \o <<"_">> \o repr(1) \o temp_type
    ELSE ret_file_name \o temp_type

\* the while loop of createTempFileName, from temp_number on
RECURSIVE probeLoop(_, _, _, _)
probeLoop(ret_file_name, temp_type, temp_number, files) ==
    LET temp_suffix == IF temp_number = 0 THEN << >> ELSE <<"_">> \o repr(temp_number)
    IN  IF is_file(ret_file_name \o temp_suffix \o temp_type, files)
        THEN probeLoop(ret_file_name, temp_type, temp_number + 1, files)
        ELSE ret_file_name \o temp_suffix \o temp_type

\* a resolver that never probes: the name is returned as it came
createTempFileName_unprobed(temp_file_name, files) ==
    IF getLastDot(temp_file_name) = -1 THEN Raised("UnboundLocalError")
    ELSE Returned(temp_file_name)

\* ret_file_name is assigned only in the else branch: without a dot, the loop's
\* first read of it raises UnboundLocalError
createTempFileName(temp_file_name, files) ==
    LET i_dot == getLastDot(temp_file_name)
        l == Len(temp_file_name)
    IN  IF i_dot = -1
        THEN Raised("UnboundLocalError")
        ELSE Returned(probeLoop(SliceTo(temp_file_name, i_dot),
                                SliceFrom(temp_file_name, i_dot - l), 0, files))

----------------------------------------------------------------------------
(* General definitions: build_args *)

\* the values of an arguments dict: a bool, a str or an int
BoolV(b) == [type |-> "bool", b |-> b, s |-> << >>, i |-> 0]
StrV(s) == [type |-> "str", b |-> FALSE, s |-> s, i |-> 0]
IntV(i) == [type |-> "int", b |-> FALSE, s |-> << >>, i |-> i]

\* repr of a value
reprValue(key) ==
    IF key.type = "bool" THEN (IF key.b THEN <<"T", "r", "u", "e">> ELSE <<"F", "a", "l", "s", "e">>)
    ELSE IF key.type = "str" THEN <<"'">> \o key.s \o <<"'">>
    ELSE repr(key.i)

\* a serializer without the isinstance(key, bool) branch: a bool is printed
\* like any other non-str value
build_args_no_bool(args, k, lstArgs) ==
    LET name == args[k].name
        key == args[k].key
    IN  IF key.type = "str"
        THEN (IF key.s # << >> THEN lstArgs \o <<" ", "-", "-">> \o name \o <<"=">> \o key.s ELSE lstArgs)
        ELSE lstArgs \o <<" ", "-", "-">> \o name \o <<"=">> \o reprValue(key)

\* one iteration of build_args's loop: lstArgs after the k-th entry
build_args_step(args, k, lstArgs) ==
    LET name == args[k].name
        key == args[k].key
    IN  IF key.type = "bool"
        THEN (IF key.b THEN lstArgs \o <<" ", "-", "-">> \o name ELSE lstArgs)
        ELSE IF key.type = "str"
        THEN (IF key.s # << >> THEN lstArgs \o <<" ", "-", "-">> \o name \o <<"=">> \o key.s ELSE lstArgs)
        ELSE lstArgs \o <<" ", "-", "-">> \o name \o <<"=">> \o reprValue(key)

RECURSIVE build_args_loop(_, _, _)
build_args_loop(args, k, lstArgs) ==
    IF k > Len(args) THEN lstArgs
    ELSE build_args_loop(args, k + 1, build_args_step(args, k, lstArgs))

build_args(args) == build_args_loop(args, 1, << >>)

----------------------------------------------------------------------------
(* General definitions: build_sbatch, build_srun *)

\* a builder that applies the ipython quirk only to a command that is ipython
str_args_if_equal(ro, args) ==
    IF ro.command = <<"i", "p", "y", "t", "h", "o", "n">> THEN <<" ", "-", "-">> \o build_args(args) ELSE build_args(args)

\* str_args, as both builders compute it
str_args_of(ro, args) ==
    IF Contains(<<"i", "p", "y", "t", "h", "o", "n">>, ro.command) THEN <<" ", "-", "-">> \o build_args(args) ELSE build_args(args)

\* the argument of the write of the invocation line
invocation(ro, args) == ro.command \o <<" ">> \o ro.script \o str_args_of(ro, args) \o <<"\n">>

\* the arguments of build_sbatch's calls of f_sbatch.write, in order
build_sbatch_writes(ro, opts, args) ==
    <<<<"#", "!", "/", "b", "i", "n", "/", "b", "a", "s", "h", "\n", "\n">>>>
    \o [i \in 1..Len(opts) |-> <<"#", "S", "B", "A", "T", "C", "H", " ">> \o opts[i] \o <<"\n">>]
    \o <<<<"\n">>,
          <<"s", "o", "u", "r", "c", "e", " ", "a", "c", "t", "i", "v", "a", "t", "e", " ">> \o ro.env_name \o <<"\n">>,
          invocation(ro, args),
          <<"s", "o", "u", "r", "c", "e", " ", "d", "e", "a", "c", "t", "i", "v", "a", "t", "e", " ">> \o ro.env_name \o <<"\n">>>>

\* the arguments of build_srun's calls of f_sbatch.write, in order
build_srun_writes(ro, opts, args) ==
    <<<<"#", "!", "/", "b", "i", "n", "/", "b", "a", "s", "h", "\n", "\n">>,
      <<"s", "o", "u", "r", "c", "e", " ", "a", "c", "t", "i", "v", "a", "t", "e", " ">> \o ro.env_name \o <<"\n">>,
      invocation(ro, args),
      <<"s", "o", "u", "r", "c", "e", " ", "d", "e", "a", "c", "t", "i", "v", "a", "t", "e", " ">> \o ro.env_name \o <<"\n">>>>

RECURSIVE build_srun_loop(_, _, _)
build_srun_loop(opts, k, cmd) ==
    IF k > Len(opts) THEN cmd ELSE build_srun_loop(opts, k + 1, cmd \o <<" ">> \o opts[k])

\* command_srun, as build_srun returns it
build_srun_command(opts) == build_srun_loop(opts, 1, <<"s", "r", "u", "n">>) \o <<" ", "-", "-", "p", "t", "y", " ", "b", "a", "s", "h">>

----------------------------------------------------------------------------
(* File objects and child processes *)

\* open(path, 'w'): the file exists and is empty
open_w(files, path) == [q \in DOMAIN files \cup {path} |-> IF q = path THEN << >> ELSE files[q]]

\* a close that drops what is buffered
close_unflushed(files, f) == files

\* f.close(): what is buffered reaches the file
close_flushed(files, f) == [files EXCEPT ![f.path] = @ \o f.buf]

\* Popen's stdout argument, and its absent stderr argument
PopenStdout == "PIPE"
PopenStderr == "inherit"

\* a launcher that submits the script in both modes
bashCMD_always(ro, cmd_srun) == <<"s", "b", "a", "t", "c", "h", " ">> \o ro.temp_file

\* the command line launch_exp splits and spawns
bashCMD_of(ro, cmd_srun) == IF ro.interactive THEN cmd_srun ELSE <<"s", "b", "a", "t", "c", "h", " ">> \o ro.temp_file

\* the byte that is no UTF-8
BadByte == "<ff>"

\* str(b, 'utf-8')
decode(b) == IF \E i \in 1..Len(b) : b[i] = BadByte THEN Raised("UnicodeDecodeError") ELSE Returned(b)

----------------------------------------------------------------------------
(* State *)

Old == <<"o", "l", "d">>

DefaultRunOpt ==
    [interactive |-> FALSE, env_name |-> <<"e", "n", "v", "1">>, command |-> <<"p", "y", "t", "h", "o", "n">>,
     script |-> <<"t", "r", "a", "i", "n", ".", "p", "y">>, temp_file |-> <<"a", ".", "s", "h">>]

NoFile == [path |-> << >>, buf |-> << >>, pos |-> 1, state |-> "none"]
NoChild == [out |-> << >>, err |-> << >>, returncode |-> 0]
NoExc == [type |-> "none", at |-> "none"]

\* the state of a program that has not called launch_exp
Fresh ==
    /\ ret = Returned(<< >>)
    /\ command_srun = << >>
    /\ f_sbatch = NoFile
    /\ procs = << >>
    /\ child = NoChild
    /\ output = None
    /\ error = None
    /\ stdout = << >>
    /\ stderr = << >>
    /\ exc = NoExc
    /\ calls = 0
    /\ fs0 = << >>
    /\ scripts = << >>

----------------------------------------------------------------------------
(* The resolver on its own: every path of at most MaxLen characters, *)
(* against every set of files named like the path with a numeric suffix *)
(* before one of its dots or at its end *)

NameChars == {"a", "."}

Paths == UNION {[1..n -> NameChars] : n \in 0..MaxLen}

Suffixed(p, k, n) == SubSeq(p, 1, k) \o <<"_">> \o repr(n) \o SubSeq(p, k + 1, Len(p))

\* the empty path, . and .. name directories, never regular files
CanBeFile(p) == p \notin {<< >>, <<".">>, <<".", ".">>}

NearNames(p) ==
    {q \in {p} \cup {Suffixed(p, k, n) :
                        k \in {j \in 0..Len(p) : j = Len(p) \/ p[j + 1] = "."},
                        n \in 1..MaxNum} : CanBeFile(q)}

InitName ==
    /\ pc = "name"
    /\ runOpt \in {[DefaultRunOpt EXCEPT !.temp_file = p] : p \in Paths}
    /\ fs \in {[f \in F |-> Old] : F \in SUBSET NearNames(runOpt.temp_file)}
    /\ sbatchOpt = << >>
    /\ argsDict = << >>
    /\ Fresh

ResolveName ==
    /\ pc = "name"
    /\ ret' = createTempFileName(runOpt.temp_file, fs)
    /\ pc' = "name_done"
    /\ UNCHANGED <<runOpt, sbatchOpt, argsDict, fs, command_srun, f_sbatch, procs, child,
                   output, error, stdout, stderr, exc, calls, fs0, scripts>>

NextName == ResolveName

SpecName == InitName /\ [][NextName]_vars

----------------------------------------------------------------------------
(* The serializer on its own: every arguments dict of at most MaxArgs entries *)

ArgNames == {<<"v", "e", "r", "b", "o", "s", "e">>, <<"n", "a", "m", "e">>, <<"c", "o", "u", "n", "t">>}

ArgValues == {BoolV(TRUE), BoolV(FALSE), StrV(<< >>), StrV(<<"x">>), IntV(5), IntV(-12)}

Entries == [name : ArgNames, key : ArgValues]

\* a dict has each name once
IsDict(d) == \A i, j \in 1..Len(d) : d[i].name = d[j].name => i = j

ArgDicts == {d \in UNION {[1..n -> Entries] : n \in 0..MaxArgs} : IsDict(d)}

InitArgs ==
    /\ pc = "args"
    /\ argsDict \in ArgDicts
    /\ runOpt = DefaultRunOpt
    /\ sbatchOpt = << >>
    /\ fs = << >>
    /\ Fresh

SerializeArgs ==
    /\ pc = "args"
    /\ ret' = Returned(build_args(argsDict))
    /\ pc' = "args_done"
    /\ UNCHANGED <<runOpt, sbatchOpt, argsDict, fs, command_srun, f_sbatch, procs, child,
                   output, error, stdout, stderr, exc, calls, fs0, scripts>>

NextArgs == SerializeArgs

SpecArgs == InitArgs /\ [][NextArgs]_vars

----------------------------------------------------------------------------
(* The launcher: launch_exp called up to MaxCalls times on one runOpt *)

Commands == {<<"p", "y", "t", "h", "o", "n">>, <<"i", "p", "y", "t", "h", "o", "n", "3">>}

TempFiles == {<<"a", ".", "s", "h">>, <<"t", "m", "p">>}

Directives == {<<"-", "-", "t", "i", "m", "e", "=", "0", "1", ":", "0", "0", ":", "0", "0">>, <<"-", "N", " ", "2">>}

SbatchOpts == UNION {[1..n -> Directives] : n \in 0..MaxOpts}

LaunchArgs ==
    {<< >>,
     <<[name |-> <<"x">>, key |-> StrV(<<"1">>)]>>,
     <<[name |-> <<"e", "p", "o", "c", "h", "s">>, key |-> IntV(10)]>>}

\* nothing there, the path taken, or the path and its first suffix taken
TakenNames(p) ==
    {{}, {p}} \cup (IF getLastDot(p) = -1 THEN {} ELSE {{p, Suffixed(p, getLastDot(p), 1)}})

ChildOut == {<< >>, <<"S", "u", "b", "m", "i", "t", "t", "e", "d", " ", "b", "a", "t", "c", "h", " ", "j", "o", "b", " ", "7", "\n">>, <<BadByte>>}
ChildErr == {<< >>, <<"s", "b", "a", "t", "c", "h", ":", " ", "e", "r", "r", "o", "r", "\n">>}
ReturnCodes == {0, 1}

Init ==
    /\ pc = "idle"
    /\ runOpt \in [interactive : {FALSE}, env_name : {<<"e", "n", "v", "1">>}, command : Commands,
                    script : {<<"t", "r", "a", "i", "n", ".", "p", "y">>}, temp_file : TempFiles]
    /\ sbatchOpt \in SbatchOpts
    /\ argsDict \in LaunchArgs
    /\ fs \in {[f \in F |-> Old] : F \in TakenNames(runOpt.temp_file)}
    /\ Fresh

\* the exception propagates: launch_exp has no handler
Raise(type, at) ==
    /\ pc' = "raised"
    /\ exc' = [type |-> type, at |-> at]

\* the writes of the builder launch_exp chose
Writes == IF runOpt.interactive THEN build_srun_writes(runOpt, sbatchOpt, argsDict)
          ELSE build_sbatch_writes(runOpt, sbatchOpt, argsDict)

\* launch_exp is called, with runOpt['interactive'] as the caller set it
Call(interactive) ==
    /\ pc = "idle"
    /\ calls < MaxCalls
    /\ runOpt' = [runOpt EXCEPT !.interactive = interactive]
    /\ command_srun' = << >>
    /\ f_sbatch' = NoFile
    /\ procs' = << >>
    /\ child' = NoChild
    /\ output' = None
    /\ error' = None
    /\ stdout' = << >>
    /\ stderr' = << >>
    /\ exc' = NoExc
    /\ fs0' = fs
    /\ pc' = "build"
    /\ UNCHANGED <<sbatchOpt, argsDict, fs, ret, calls, scripts>>

\* the builder up to the assignment of runOpt['temp_file']
Resolve ==
    /\ pc = "build"
    /\ command_srun' = IF runOpt.interactive THEN build_srun_command(sbatchOpt) ELSE command_srun
    /\ LET r == createTempFileName(runOpt.temp_file, fs)
       IN  IF r.exc # "none"
           THEN Raise(r.exc, "createTempFileName") /\ UNCHANGED runOpt
           ELSE /\ runOpt' = [runOpt EXCEPT !.temp_file = r.val]
                /\ pc' = "open"
                /\ UNCHANGED exc
    /\ UNCHANGED <<sbatchOpt, argsDict, fs, ret, f_sbatch, procs, child, output, error,
                   stdout, stderr, calls, fs0, scripts>>

\* f_sbatch = open(runOpt['temp_file'], 'w')
Open(ok) ==
    /\ pc = "open"
    /\ IF ok
       THEN /\ fs' = open_w(fs, runOpt.temp_file)
            /\ f_sbatch' = [path |-> runOpt.temp_file, buf |-> << >>, pos |-> 1, state |-> "open"]
            /\ pc' = "write"
            /\ UNCHANGED exc
       ELSE Raise("OSError", "open") /\ UNCHANGED <<fs, f_sbatch>>
    /\ UNCHANGED <<runOpt, sbatchOpt, argsDict, ret, command_srun, procs, child, output,
                   error, stdout, stderr, calls, fs0, scripts>>

\* the next f_sbatch.write: buffered until the close; when it raises, the file
\* object is left open and what was buffered is not in the file
Write(ok) ==
    /\ pc = "write"
    /\ f_sbatch.pos <= Len(Writes)
    /\ IF ok
       THEN /\ f_sbatch' = [f_sbatch EXCEPT !.buf = @ \o Writes[f_sbatch.pos], !.pos = @ + 1]
            /\ UNCHANGED <<pc, exc>>
       ELSE Raise("OSError", "write") /\ UNCHANGED f_sbatch
    /\ UNCHANGED <<runOpt, sbatchOpt, argsDict, fs, ret, command_srun, procs, child, output,
                   error, stdout, stderr, calls, fs0, scripts>>

\* f_sbatch.close(), and the builder returns
Close ==
    /\ pc = "write"
    /\ f_sbatch.pos > Len(Writes)
    /\ fs' = close_flushed(fs, f_sbatch)
    /\ f_sbatch' = [f_sbatch EXCEPT !.buf = << >>, !.state = "closed"]
    /\ scripts' = Append(scripts, [call |-> calls + 1, path |-> f_sbatch.path,
                                    content |-> fs'[f_sbatch.path]])
    /\ pc' = IF runOpt.interactive THEN "notice" ELSE "popen"
    /\ UNCHANGED <<runOpt, sbatchOpt, argsDict, ret, command_srun, procs, child, output,
                   error, stdout, stderr, exc, calls, fs0>>

\* print('Interactive job to launch: ' + runOpt['temp_file'] + '\n')
Notice ==
    /\ pc = "notice"
    /\ stdout' = stdout \o <<"I", "n", "t", "e", "r", "a", "c", "t", "i", "v", "e", " ", "j", "o", "b", " ", "t", "o", " ", "l", "a", "u", "n", "c", "h", ":", " ">> \o runOpt.temp_file \o <<"\n">> \o <<"\n">>
    /\ pc' = "popen"
    /\ UNCHANGED <<runOpt, sbatchOpt, argsDict, fs, ret, command_srun, f_sbatch, procs, child,
                   output, error, stderr, exc, calls, fs0, scripts>>

\* proc = subprocess.Popen(cmd.split(), stdout = subprocess.PIPE)
Popen(ok) ==
    /\ pc = "popen"
    /\ IF ok
       THEN /\ procs' = Append(procs, [cmd |-> bashCMD_of(runOpt, command_srun),
                                       argv |-> split(bashCMD_of(runOpt, command_srun)),
                                       stdout |-> PopenStdout, stderr |-> PopenStderr,
                                       waited |-> FALSE])
            /\ pc' = "communicate"
            /\ UNCHANGED exc
       ELSE Raise("OSError", "Popen") /\ UNCHANGED procs
    /\ UNCHANGED <<runOpt, sbatchOpt, argsDict, fs, ret, command_srun, f_sbatch, child, output,
                   error, stdout, stderr, calls, fs0, scripts>>

\* output, error = proc.communicate(): the child writes out and err and exits;
\* a piped stream is returned, an inherited one is the caller's own
Communicate(out, err, returncode) ==
    /\ pc = "communicate"
    /\ child' = [out |-> out, err |-> err, returncode |-> returncode]
    /\ procs' = [procs EXCEPT ![Len(procs)].waited = TRUE]
    /\ output' = IF procs[Len(procs)].stdout = "PIPE" THEN Some(out) ELSE None
    /\ error' = IF procs[Len(procs)].stderr = "PIPE" THEN Some(err) ELSE None
    /\ stdout' = IF procs[Len(procs)].stdout = "PIPE" THEN stdout ELSE stdout \o out
    /\ stderr' = IF procs[Len(procs)].stderr = "PIPE" THEN stderr ELSE stderr \o err
    /\ pc' = IF runOpt.interactive THEN "returned" ELSE "print"
    /\ UNCHANGED <<runOpt, sbatchOpt, argsDict, fs, ret, command_srun, f_sbatch, exc, calls,
                   fs0, scripts>>

\* the two prints of the batch branch
PrintResult ==
    /\ pc = "print"
    /\ LET o == decode(output.val)
           e == decode(error.val)
       IN  IF ~output.none /\ o.exc # "none"
           THEN Raise(o.exc, "print") /\ UNCHANGED <<stdout, stderr>>
           ELSE /\ stdout' = IF output.none THEN stdout ELSE stdout \o strip(o.val) \o <<"\n">>
                /\ IF ~error.none /\ e.exc # "none"
                   THEN Raise(e.exc, "print") /\ UNCHANGED stderr
                   ELSE /\ stderr' = IF error.none THEN stderr ELSE stderr \o strip(e.val) \o <<"\n">>
                        /\ pc' = "returned"
                        /\ UNCHANGED exc
    /\ UNCHANGED <<runOpt, sbatchOpt, argsDict, fs, ret, command_srun, f_sbatch, procs, child,
                   output, error, calls, fs0, scripts>>

\* launch_exp returns, or its exception reaches the caller
Return ==
    /\ pc \in {"returned", "raised"}
    /\ pc' = "idle"
    /\ calls' = calls + 1
    /\ UNCHANGED <<runOpt, sbatchOpt, argsDict, fs, ret, command_srun, f_sbatch, procs, child,
                   output, error, stdout, stderr, exc, fs0, scripts>>

Next ==
    \/ \E interactive \in BOOLEAN : Call(interactive)
    \/ Resolve
    \/ \E ok \in BOOLEAN : Open(ok)
    \/ \E ok \in BOOLEAN : Write(ok)
    \/ Close
    \/ Notice
    \/ \E ok \in BOOLEAN : Popen(ok)
    \/ \E out \in ChildOut, err \in ChildErr, returncode \in ReturnCodes :
           Communicate(out, err, returncode)
    \/ PrintResult
    \/ Return

Spec == Init /\ [][Next]_vars

----------------------------------------------------------------------------
(* What the specification says of the resolver *)

HasDot(p) == \E i \in 1..Len(p) : p[i] = "."

LastDotAt(p) == CHOOSE i \in 1..Len(p) : p[i] = "." /\ \A j \in (i + 1)..Len(p) : p[j] # "."

\* the path up to its last dot, and from its last dot on
StemOf(p) == SubSeq(p, 1, LastDotAt(p) - 1)
ExtensionOf(p) == SubSeq(p, LastDotAt(p), Len(p))

Candidate(stem, ext, n) == IF n = 0 THEN stem \o ext ELSE stem \o <<"_">> \o repr(n) \o ext

\* the smallest n >= 0 whose candidate is no existing file (n = 0: no suffix)
FirstFree(stem, ext, files) ==
    CHOOSE n \in 0..Cardinality(DOMAIN files) :
        /\ Candidate(stem, ext, n) \notin DOMAIN files
        /\ \A m \in 0..(n - 1) : Candidate(stem, ext, m) \in DOMAIN files

EndsWithDot(p) == p # << >> /\ p[Len(p)] = "."

\* C1: for a path with a dot, createTempFileName returns stem + extension when no
\* file is there, and otherwise stem + '_' + n + extension for the smallest n >= 1
\* whose candidate is no existing file; the result is never an existing file.
C1_FirstFreeName ==
    (pc = "name_done" /\ HasDot(runOpt.temp_file)) =>
        LET stem == StemOf(runOpt.temp_file)
            ext == ExtensionOf(runOpt.temp_file)
        IN  /\ ret = Returned(Candidate(stem, ext, FirstFree(stem, ext, fs)))
            /\ ret.val \notin DOMAIN fs

\* a.a and a_1.a both exist, and the resolver answers a_2.a
C1_Witness ==
    /\ pc = "name_done"
    /\ runOpt.temp_file = <<"a", ".", "a">>
    /\ {<<"a", ".", "a">>, <<"a", "_", "1", ".", "a">>} \subseteq DOMAIN fs
    /\ ret = Returned(<<"a", "_", "2", ".", "a">>)

\* C2: for a path without a dot, createTempFileName completes without error, with
\* the whole input as the stem and an empty extension: it returns p when no file
\* is there and otherwise p + '_' + n for the smallest free n >= 1.
C2_NoDotResolves ==
    (pc = "name_done" /\ ~HasDot(runOpt.temp_file)) =>
        ret = Returned(Candidate(runOpt.temp_file, << >>,
                                 FirstFree(runOpt.temp_file, << >>, fs)))

\* C3 as stated: for an existing path that ends with a dot, the extension is
\* empty and the suffix is at the very end: the result is a prefix of the input
\* followed by '_' + n and nothing else.
C3_SuffixAtVeryEnd ==
    (pc = "name_done" /\ EndsWithDot(runOpt.temp_file) /\ runOpt.temp_file \in DOMAIN fs) =>
        /\ ret.exc = "none"
        /\ \E k \in 0..Len(runOpt.temp_file), n \in 1..Cardinality(DOMAIN fs) :
               ret.val = SubSeq(runOpt.temp_file, 1, k) \o <<"_">> \o repr(n)

\* C3 as amended: for an existing path that ends with a dot, the extension is
\* that dot, and the suffix goes right before it: the result is the input without
\* its last character, then '_' + n for the smallest free n >= 1, then the dot.
C3_SuffixBeforeTrailingDot ==
    (pc = "name_done" /\ EndsWithDot(runOpt.temp_file) /\ runOpt.temp_file \in DOMAIN fs) =>
        LET front == SubSeq(runOpt.temp_file, 1, Len(runOpt.temp_file) - 1)
        IN  /\ ret.exc = "none"
            /\ \E n \in 1..Cardinality(DOMAIN fs) :
                   /\ ret.val = front \o <<"_">> \o repr(n) \o <<".">>
                   /\ \A m \in 1..(n - 1) : (front \o <<"_">> \o repr(m) \o <<".">>) \in DOMAIN fs
            /\ ret.val \notin DOMAIN fs

\* a. exists, and the resolver answers a_1.
C3_Witness ==
    /\ pc = "name_done"
    /\ runOpt.temp_file = <<"a", ".">>
    /\ <<"a", ".">> \in DOMAIN fs
    /\ ret = Returned(<<"a", "_", "1", ".">>)

----------------------------------------------------------------------------
(* What the specification says of the serializer *)

\* the fragment of one entry
Fragment(e) ==
    CASE e.key = BoolV(TRUE) -> <<" ", "-", "-">> \o e.name
      [] e.key = BoolV(FALSE) -> << >>
      [] e.key.type = "str" /\ e.key.s # << >> -> <<" ", "-", "-">> \o e.name \o <<"=">> \o e.key.s
      [] e.key.type = "str" /\ e.key.s = << >> -> << >>
      [] e.key.type = "int" -> <<" ", "-", "-">> \o e.name \o <<"=">> \o repr(e.key.i)

RECURSIVE Fragments(_)
Fragments(d) == IF d = << >> THEN << >> ELSE Fragment(Head(d)) \o Fragments(Tail(d))

\* C4: build_args returns the fragments of the entries, concatenated in insertion
\* order: ' --name' for True, nothing for False, ' --name=value' for a non-empty
\* str, nothing for an empty str, ' --name=repr' for another value; each emitted
\* fragment starts with exactly one space.
C4_FragmentsInOrder ==
    (pc = "args_done") =>
        /\ ret = Returned(Fragments(argsDict))
        /\ \A k \in 1..Len(argsDict) :
               LET f == Fragment(argsDict[k])
               IN  f # << >> => (f[1] = " " /\ f[2] = "-")
        /\ (argsDict = <<[name |-> <<"c", "o", "u", "n", "t">>, key |-> IntV(5)]>>) => ret.val = <<" ", "-", "-", "c", "o", "u", "n", "t", "=", "5">>
        /\ (argsDict = <<[name |-> <<"v", "e", "r", "b", "o", "s", "e">>, key |-> BoolV(TRUE)]>>) => ret.val = <<" ", "-", "-", "v", "e", "r", "b", "o", "s", "e">>
        /\ (argsDict = <<[name |-> <<"n", "a", "m", "e">>, key |-> StrV(<<"x">>)]>>) => ret.val = <<" ", "-", "-", "n", "a", "m", "e", "=", "x">>

\* {verbose: True, count: -12} serializes to ' --verbose --count=-12'
C4_Witness ==
    /\ pc = "args_done"
    /\ argsDict = <<[name |-> <<"v", "e", "r", "b", "o", "s", "e">>, key |-> BoolV(TRUE)], [name |-> <<"c", "o", "u", "n", "t">>, key |-> IntV(-12)]>>
    /\ ret = Returned(<<" ", "-", "-", "v", "e", "r", "b", "o", "s", "e", " ", "-", "-", "c", "o", "u", "n", "t", "=", "-", "1", "2">>)

----------------------------------------------------------------------------
(* What the specification says of the builders and the launcher *)

RECURSIVE JoinLines(_)
JoinLines(lines) ==
    IF lines = << >> THEN << >> ELSE Head(lines) \o <<"\n">> \o JoinLines(Tail(lines))

RECURSIVE JoinSpace(_)
JoinSpace(words) ==
    IF Len(words) = 1 THEN Head(words) ELSE Head(words) \o <<" ">> \o JoinSpace(Tail(words))

IsPrefix(a, b) == Len(a) <= Len(b) /\ SubSeq(b, 1, Len(a)) = a
IsSuffix(a, b) == Len(a) <= Len(b) /\ SubSeq(b, Len(b) - Len(a) + 1, Len(b)) = a

Shebang == <<"#", "!", "/", "b", "i", "n", "/", "b", "a", "s", "h">>

DirectiveLines == [i \in 1..Len(sbatchOpt) |-> <<"#", "S", "B", "A", "T", "C", "H", " ">> \o sbatchOpt[i]]

\* activation, invocation and deactivation: the serialized arguments follow the
\* script, after one more ' --' when the command contains ipython
BodyLines ==
    <<<<"s", "o", "u", "r", "c", "e", " ", "a", "c", "t", "i", "v", "a", "t", "e", " ">> \o runOpt.env_name,
      runOpt.command \o <<" ">> \o runOpt.script
          \o (IF Contains(<<"i", "p", "y", "t", "h", "o", "n">>, runOpt.command) THEN <<" ", "-", "-">> ELSE << >>)
          \o Fragments(argsDict),
      <<"s", "o", "u", "r", "c", "e", " ", "d", "e", "a", "c", "t", "i", "v", "a", "t", "e", " ">> \o runOpt.env_name>>

\* the batch script with a blank line after the shebang, and the interactive one
BatchScript == JoinLines(<<Shebang, << >> >> \o DirectiveLines \o << << >> >> \o BodyLines)
InteractiveScript == JoinLines(<<Shebang, << >> >> \o BodyLines)

NoticeText == <<"I", "n", "t", "e", "r", "a", "c", "t", "i", "v", "e", " ", "j", "o", "b", " ", "t", "o", " ", "l", "a", "u", "n", "c", "h", ":", " ">> \o runOpt.temp_file \o <<"\n", "\n">>

BatchScriptClosed == f_sbatch.state = "closed" /\ ~runOpt.interactive

Relayed(captured) == IF captured # << >> THEN strip(captured) \o <<"\n">> ELSE << >>

\* C6: in batch mode both streams of the child are captured, and after the child
\* exits the captured standard output is printed (trimmed) to standard output if
\* and only if it is not empty, and the captured standard error likewise to
\* standard error, whatever the exit status.
C6_BothStreamsRelayed ==
    (pc = "returned" /\ ~runOpt.interactive) =>
        /\ procs[1].stdout = "PIPE"
        /\ procs[1].stderr = "PIPE"
        /\ stdout = Relayed(child.out)
        /\ stderr = Relayed(child.err)

\* C7: in interactive mode the child inherits the caller's standard output: it
\* is not piped, and what the child writes reaches the caller's standard output.
C7_InteractiveStdoutInherited ==
    (runOpt.interactive /\ procs # << >>) =>
        /\ procs[1].stdout = "inherit"
        /\ pc = "returned" => IsSuffix(child.out, stdout)

\* C8: a call that completes took one of two paths, chosen by the interactive
\* flag: build_srun's script, the notice and the 'srun <directives> --pty bash'
\* command, or build_sbatch's script and 'sbatch <script path>'; it wrote exactly
\* one script file, spawned exactly one child and waited for it; no call ever
\* has a second child.
C8_OnePathOneScriptOneChild ==
    /\ Len(procs) <= 1
    /\ pc = "returned" =>
         /\ Len(procs) = 1
         /\ procs[1].waited
         /\ Cardinality({i \in 1..Len(scripts) : scripts[i].call = calls + 1}) = 1
         /\ DOMAIN fs \ DOMAIN fs0 = {runOpt.temp_file}
         /\ IF runOpt.interactive
            THEN /\ procs[1].cmd = JoinSpace(<<<<"s", "r", "u", "n">>>> \o sbatchOpt \o <<<<"-", "-", "p", "t", "y", " ", "b", "a", "s", "h">>>>)
                 /\ procs[1].argv[1] = <<"s", "r", "u", "n">>
                 /\ fs[runOpt.temp_file] = InteractiveScript
                 /\ IsPrefix(NoticeText, stdout)
            ELSE /\ procs[1].cmd = <<"s", "b", "a", "t", "c", "h", " ">> \o runOpt.temp_file
                 /\ procs[1].argv = <<<<"s", "b", "a", "t", "c", "h">>, runOpt.temp_file>>
                 /\ fs[runOpt.temp_file] = BatchScript
                 /\ ~IsPrefix(NoticeText, stdout)

\* an interactive call with a directive has returned: its one child is
\* srun --time=01:00:00 --pty bash
C8_Witness ==
    /\ pc = "returned"
    /\ runOpt.interactive
    /\ Len(procs) = 1
    /\ procs[1].argv = <<<<"s", "r", "u", "n">>, <<"-", "-", "t", "i", "m", "e", "=", "0", "1", ":", "0", "0", ":", "0", "0">>, <<"-", "-", "p", "t", "y">>, <<"b", "a", "s", "h">>>>
    /\ calls = 1

\* C9: a child is spawned only once the script is completely written and its
\* file object closed; an error in resolving the name, opening or writing ends the
\* call with that error and without a child.
C9_SpawnAfterClose ==
    /\ procs # << >> =>
         /\ f_sbatch.state = "closed"
         /\ f_sbatch.path = runOpt.temp_file
         /\ fs[runOpt.temp_file] = IF runOpt.interactive THEN InteractiveScript ELSE BatchScript
    /\ exc.at \in {"createTempFileName", "open", "write"} =>
         /\ pc \in {"raised", "idle"}
         /\ exc.type # "none"
         /\ procs = << >>

\* a first call spawned its child after closing its script; the second call's
\* write failed, and it ended without a child
C9_Witness ==
    /\ calls = 1
    /\ Len(scripts) = 1
    /\ pc = "raised"
    /\ exc = [type |-> "OSError", at |-> "write"]
    /\ f_sbatch.state = "open"
    /\ procs = << >>

\* C10: with a temp_file that has a dot, each call opens a path where no file
\* was when the call began, no file that was there when the call began is changed,
\* the scripts written are at pairwise distinct paths and keep their content, and
\* a call that returns leaves in runOpt.temp_file the path it wrote.
C10_NoScriptOverwritten ==
    HasDot(runOpt.temp_file) =>
        /\ f_sbatch.state # "none" => f_sbatch.path \notin DOMAIN fs0
        /\ \A q \in DOMAIN fs0 : q \in DOMAIN fs /\ fs[q] = fs0[q]
        /\ \A i, j \in 1..Len(scripts) : scripts[i].path = scripts[j].path => i = j
        /\ \A i \in 1..Len(scripts) :
               scripts[i].path \in DOMAIN fs /\ fs[scripts[i].path] = scripts[i].content
        /\ pc = "returned" =>
               /\ scripts # << >>
               /\ scripts[Len(scripts)] = [call |-> calls + 1, path |-> runOpt.temp_file,
                                             content |-> fs[runOpt.temp_file]]

\* a.sh was there; a batch call wrote a_1.sh, then an interactive call wrote
\* a_1_1.sh and returned
C10_Witness ==
    /\ pc = "returned"
    /\ calls = 1
    /\ runOpt.interactive
    /\ Len(scripts) = 2
    /\ scripts[1].path = <<"a", "_", "1", ".", "s", "h">>
    /\ scripts[2].path = <<"a", "_", "1", "_", "1", ".", "s", "h">>
    /\ fs[<<"a", ".", "s", "h">>] = Old
    /\ IsPrefix(<<"#", "!", "/", "b", "i", "n", "/", "b", "a", "s", "h", "\n", "\n", "#", "S", "B", "A", "T", "C", "H", " ">>, fs[<<"a", "_", "1", ".", "s", "h">>])

====
